---------------------------- MODULE Spec2Model ----------------------------
(***************************************************************************)
(* A model of src/ingestion/parser.py: PythonCodeParserService, the        *)
(* structural code analyzer that turns the Python files of a repository    *)
(* into chunk records.                                                     *)
(*                                                                         *)
(* A repository is a sequence of files.  A file is text (a sequence of     *)
(* lines) and, when it parses, the ast module's tree of that text.  The    *)
(* service is a state machine: parse_code's loop over the files, the       *)
(* ast.walk loop of chunk_python_code over one file's nodes, and the loop  *)
(* of extract_methods_from_class over one class body.                      *)
(***************************************************************************)
EXTENDS Integers, Sequences, FiniteSets, TLC

(***************************************************************************)
(* Bounds of the model.                                                    *)
(***************************************************************************)
MaxFiles == 2      \* files under the repository root
MaxLead == 1       \* blank lines before a file's first statement

(***************************************************************************)
(* Python values.                                                          *)
(***************************************************************************)
None == "<None>"                 \* Python's None, where a str is optional
NoneNode == [k |-> "None"]       \* Python's None, where a node is optional

Min(a, b) == IF a < b THEN a ELSE b

(***************************************************************************)
(* str operations.  A Python str is a TLA+ string; Len, \o and SubSeq act  *)
(* on its characters.                                                      *)
(***************************************************************************)
CharAt(s, i) == SubSeq(s, i, i)

\* s.startswith(p)
StartsWith(s, p) == Len(p) <= Len(s) /\ SubSeq(s, 1, Len(p)) = p

\* p in s
Contains(s, p) == \E i \in 1..(Len(s) - Len(p) + 1) : SubSeq(s, i, i + Len(p) - 1) = p

RECURSIVE Spaces(_)
Spaces(n) == IF n = 0 THEN "" ELSE " " \o Spaces(n - 1)

\* number of leading blanks of s
RECURSIVE LeadingSpaces(_)
LeadingSpaces(s) ==
    IF Len(s) > 0 /\ CharAt(s, 1) = " "
    THEN 1 + LeadingSpaces(SubSeq(s, 2, Len(s)))
    ELSE 0

\* s.strip() == ""
IsBlank(s) == LeadingSpaces(s) = Len(s)

\* s.lstrip()
LStrip(s) == SubSeq(s, LeadingSpaces(s) + 1, Len(s))

\* s.rstrip()
RECURSIVE RStrip(_)
RStrip(s) ==
    IF Len(s) > 0 /\ CharAt(s, Len(s)) = " "
    THEN RStrip(SubSeq(s, 1, Len(s) - 1))
    ELSE s

\* path.split(os.sep)[-1]
RECURSIVE LastSegment(_)
LastSegment(path) ==
    IF \E i \in 1..Len(path) : CharAt(path, i) = "/"
    THEN LastSegment(SubSeq(path, 1 + CHOOSE i \in 1..Len(path) : CharAt(path, i) = "/", Len(path)))
    ELSE path

(***************************************************************************)
(* Text.  A str that holds source code is modelled by its lines: the value *)
(* of s.split('\n'), which is never empty ("".split('\n') is [""]).        *)
(***************************************************************************)
\* '\n'.join(lines), as the lines of the joined str
Join(lines) == IF lines = <<>> THEN <<"">> ELSE lines

\* lines[start:end], a Python slice with 0 <= start
Slice(lines, start, end) == SubSeq(lines, start + 1, Min(end, Len(lines)))

\* text.strip() == ""
IsBlankText(text) == \A i \in 1..Len(text) : IsBlank(text[i])

\* text.strip(): leading and trailing whitespace, line breaks included, removed
StripText(text) ==
    IF IsBlankText(text) THEN <<"">>
    ELSE LET first == CHOOSE i \in 1..Len(text) :
                          ~IsBlank(text[i]) /\ \A j \in 1..(i - 1) : IsBlank(text[j])
             last == CHOOSE i \in 1..Len(text) :
                          ~IsBlank(text[i]) /\ \A j \in (i + 1)..Len(text) : IsBlank(text[j])
         IN  IF first = last
             THEN <<RStrip(LStrip(text[first]))>>
             ELSE <<LStrip(text[first])>> \o SubSeq(text, first + 1, last - 1)
                      \o <<RStrip(text[last])>>

\* textwrap.dedent(text): the margin common to the non-blank lines is removed and
\* a whitespace-only line becomes empty (the model's whitespace is the blank)
Dedent(text) ==
    LET solid == {i \in 1..Len(text) : ~IsBlank(text[i])}
        margin == IF solid = {} THEN 0
                  ELSE CHOOSE m \in {LeadingSpaces(text[i]) : i \in solid} :
                           \A i \in solid : m <= LeadingSpaces(text[i])
    IN  [i \in 1..Len(text) |->
            IF IsBlank(text[i]) THEN "" ELSE SubSeq(text[i], margin + 1, Len(text[i]))]

(***************************************************************************)
(* The ast module's nodes.  A node is a record whose field k is the name   *)
(* of its class; the other fields are those of the ast class.  Statements  *)
(* carry lineno, end_lineno and col_offset, which Parse fills in.          *)
(***************************************************************************)
Name(id) == [k |-> "Name", id |-> id]
Attribute(value, attr) == [k |-> "Attribute", value |-> value, attr |-> attr]
Call(func, args) == [k |-> "Call", func |-> func, args |-> args]
\* a constant whose value is a str, and one whose value is an int; py is type(value)
Constant(value) == [k |-> "Constant", value |-> value, py |-> "str"]
IntConstant(value) == [k |-> "Constant", value |-> value, py |-> "int"]
Subscript(value, slice) == [k |-> "Subscript", value |-> value, slice |-> slice]
And == [k |-> "And"]
Or == [k |-> "Or"]
BoolOp(op, values) == [k |-> "BoolOp", op |-> op, values |-> values]

\* a parameter, and the parameters of a function: the positional parameters, the
\* defaults of the last of them, and the parameters after * and ** (NoneNode: none)
Arg(arg, annotation) == [k |-> "arg", arg |-> arg, annotation |-> annotation]
Arguments(args, defaults, vararg, kwarg) ==
    [k |-> "arguments", args |-> args, defaults |-> defaults, vararg |-> vararg, kwarg |-> kwarg]
NoArguments == Arguments(<<>>, <<>>, NoneNode, NoneNode)

Stmt(k) == [k |-> k, lineno |-> 0, end_lineno |-> 0, col_offset |-> 0]
Pass == Stmt("Pass")
Expr(value) == [k |-> "Expr", value |-> value, lineno |-> 0, end_lineno |-> 0, col_offset |-> 0]
Raise(exc) == [k |-> "Raise", exc |-> exc, lineno |-> 0, end_lineno |-> 0, col_offset |-> 0]
Alias(name, asname) == [k |-> "alias", name |-> name, asname |-> asname]
Import(names) == [k |-> "Import", names |-> names, lineno |-> 0, end_lineno |-> 0, col_offset |-> 0]
ImportFrom(module, names) ==
    [k |-> "ImportFrom", module |-> module, names |-> names,
     lineno |-> 0, end_lineno |-> 0, col_offset |-> 0]
FunctionDef(name, body) ==
    [k |-> "FunctionDef", name |-> name, args |-> NoArguments, body |-> body,
     lineno |-> 0, end_lineno |-> 0, col_offset |-> 0]
AsyncFunctionDef(name, body) ==
    [k |-> "AsyncFunctionDef", name |-> name, args |-> NoArguments, body |-> body,
     lineno |-> 0, end_lineno |-> 0, col_offset |-> 0]
\* the function with parameters
WithArgs(function, args) == [function EXCEPT !.args = args]
ClassDef(name, bases, body) ==
    [k |-> "ClassDef", name |-> name, bases |-> bases, body |-> body,
     lineno |-> 0, end_lineno |-> 0, col_offset |-> 0]
Module(body) == [k |-> "Module", body |-> body]

\* the compound statements; of their else clauses, the model has that of if
If(test, body, orelse) ==
    [k |-> "If", test |-> test, body |-> body, orelse |-> orelse,
     lineno |-> 0, end_lineno |-> 0, col_offset |-> 0]
While(test, body) ==
    [k |-> "While", test |-> test, body |-> body,
     lineno |-> 0, end_lineno |-> 0, col_offset |-> 0]
For(target, iter, body) ==
    [k |-> "For", target |-> target, iter |-> iter, body |-> body,
     lineno |-> 0, end_lineno |-> 0, col_offset |-> 0]
AsyncFor(target, iter, body) ==
    [k |-> "AsyncFor", target |-> target, iter |-> iter, body |-> body,
     lineno |-> 0, end_lineno |-> 0, col_offset |-> 0]
Try(body, handlers) ==
    [k |-> "Try", body |-> body, handlers |-> handlers,
     lineno |-> 0, end_lineno |-> 0, col_offset |-> 0]
\* except type: (type NoneNode: a bare except)
ExceptHandler(type, body) ==
    [k |-> "ExceptHandler", type |-> type, body |-> body,
     lineno |-> 0, end_lineno |-> 0, col_offset |-> 0]

FunctionKinds == {"FunctionDef", "AsyncFunctionDef"}
DeclKinds == {"FunctionDef", "ClassDef", "AsyncFunctionDef"}
CompoundKinds == {"If", "While", "For", "AsyncFor", "Try", "ExceptHandler"}
HasBody(node) == node.k \in DeclKinds \cup CompoundKinds \cup {"Module"}

\* a docstring statement, and the statement that calls callee with no arguments
Doc(text) == Expr(Constant(text))
CallStmt(callee) == Expr(Call(callee, <<>>))
\* super().m()
SuperCall(m) == CallStmt(Attribute(Call(Name("super"), <<>>), m))

(***************************************************************************)
(* Source text and ast.parse.  The text of a statement is one header line  *)
(* and, for a declaration, the lines of its body indented by four blanks.  *)
(* Parse gives each statement the lines it occupies, as ast.parse does:    *)
(* lineno is the line of the def / class keyword, end_lineno the last line *)
(* of the body.                                                            *)
(***************************************************************************)
\* repr(value) of a constant's value
Repr(constant) ==
    IF constant.py = "str" THEN "'" \o constant.value \o "'" ELSE ToString(constant.value)

RECURSIVE Unparse(_)
Unparse(e) ==
    CASE e.k = "Name" -> e.id
      [] e.k = "Attribute" -> Unparse(e.value) \o "." \o e.attr
      [] e.k = "Call" -> Unparse(e.func) \o "()"
      [] e.k = "Constant" -> Repr(e)
      [] e.k = "Subscript" -> Unparse(e.value) \o "[" \o Unparse(e.slice) \o "]"
      [] e.k = "BoolOp" ->
            LET word == IF e.op.k = "And" THEN " and " ELSE " or "
                Operand(v) == IF v.k = "BoolOp" /\ e.op.k = "And" /\ v.op.k = "Or"
                              THEN "(" \o Unparse(v) \o ")"
                              ELSE Unparse(v)
                RECURSIVE Joined(_)
                Joined(values) ==
                    IF Len(values) = 1 THEN Operand(values[1])
                    ELSE Operand(values[1]) \o word \o Joined(Tail(values))
            IN  Joined(e.values)

RECURSIVE JoinWith(_, _)
JoinWith(strs, sep) ==
    IF strs = <<>> THEN ""
    ELSE IF Len(strs) = 1 THEN strs[1]
    ELSE strs[1] \o sep \o JoinWith(Tail(strs), sep)

AliasText(a) == IF a.asname = None THEN a.name ELSE a.name \o " as " \o a.asname

\* the text of a function's parameters
ParametersText(args) ==
    LET offset == Len(args.args) - Len(args.defaults)
        Annotated(a) == IF a.annotation = NoneNode THEN a.arg
                        ELSE a.arg \o ": " \o Unparse(a.annotation)
        Positional(i) ==
            IF i <= offset THEN Annotated(args.args[i])
            ELSE IF args.args[i].annotation = NoneNode
                 THEN args.args[i].arg \o "=" \o Unparse(args.defaults[i - offset])
                 ELSE Annotated(args.args[i]) \o " = " \o Unparse(args.defaults[i - offset])
    IN  JoinWith([i \in 1..Len(args.args) |-> Positional(i)]
                    \o (IF args.vararg = NoneNode THEN <<>> ELSE <<"*" \o Annotated(args.vararg)>>)
                    \o (IF args.kwarg = NoneNode THEN <<>> ELSE <<"**" \o Annotated(args.kwarg)>>),
                 ", ")

\* the first line of a statement
Header(s) ==
    CASE s.k = "Pass" -> "pass"
      [] s.k = "Expr" -> Unparse(s.value)
      [] s.k = "Raise" -> IF s.exc = NoneNode THEN "raise" ELSE "raise " \o Unparse(s.exc)
      [] s.k = "Import" -> "import " \o JoinWith([i \in 1..Len(s.names) |-> AliasText(s.names[i])], ", ")
      [] s.k = "ImportFrom" ->
            "from " \o (IF s.module = "" THEN "." ELSE s.module) \o " import "
                \o JoinWith([i \in 1..Len(s.names) |-> AliasText(s.names[i])], ", ")
      [] s.k = "FunctionDef" -> "def " \o s.name \o "(" \o ParametersText(s.args) \o "):"
      [] s.k = "AsyncFunctionDef" ->
            "async def " \o s.name \o "(" \o ParametersText(s.args) \o "):"
      [] s.k = "If" -> "if " \o Unparse(s.test) \o ":"
      [] s.k = "While" -> "while " \o Unparse(s.test) \o ":"
      [] s.k = "For" -> "for " \o Unparse(s.target) \o " in " \o Unparse(s.iter) \o ":"
      [] s.k = "AsyncFor" ->
            "async for " \o Unparse(s.target) \o " in " \o Unparse(s.iter) \o ":"
      [] s.k = "Try" -> "try:"
      [] s.k = "ExceptHandler" ->
            IF s.type = NoneNode THEN "except:" ELSE "except " \o Unparse(s.type) \o ":"
      [] s.k = "ClassDef" ->
            IF s.bases = <<>> THEN "class " \o s.name \o ":"
            ELSE "class " \o s.name \o "("
                    \o JoinWith([i \in 1..Len(s.bases) |-> Unparse(s.bases[i])], ", ") \o "):"

RECURSIVE Height(_)
RECURSIVE Heights(_)
\* the number of lines a statement occupies
Height(s) ==
    IF ~HasBody(s) THEN 1
    ELSE 1 + Heights(s.body)
           + (IF s.k = "Try" THEN Heights(s.handlers) ELSE 0)
           + (IF s.k = "If" /\ s.orelse # <<>> THEN 1 + Heights(s.orelse) ELSE 0)
Heights(body) == IF body = <<>> THEN 0 ELSE Height(Head(body)) + Heights(Tail(body))

RECURSIVE StmtLines(_, _)
RECURSIVE BodyLines(_, _)
\* the source lines of a statement that starts in column col
StmtLines(s, col) ==
    <<Spaces(col) \o Header(s)>>
        \o (IF HasBody(s) THEN BodyLines(s.body, col + 4) ELSE <<>>)
        \o (IF s.k = "Try" THEN BodyLines(s.handlers, col) ELSE <<>>)
        \o (IF s.k = "If" /\ s.orelse # <<>>
            THEN <<Spaces(col) \o "else:">> \o BodyLines(s.orelse, col + 4)
            ELSE <<>>)
BodyLines(body, col) ==
    IF body = <<>> THEN <<>> ELSE StmtLines(Head(body), col) \o BodyLines(Tail(body), col)

RECURSIVE Locate(_, _, _)
RECURSIVE LocateBody(_, _, _)
\* the statement as ast.parse returns it when its first line is line `line`
Locate(s, line, col) ==
    LET placed == [s EXCEPT !.lineno = line, !.end_lineno = line + Height(s) - 1,
                            !.col_offset = col]
        after == line + 1 + Heights(s.body)
    IN  CASE s.k = "Try" ->
                [placed EXCEPT !.body = LocateBody(s.body, line + 1, col + 4),
                               !.handlers = LocateBody(s.handlers, after, col)]
          [] s.k = "If" ->
                [placed EXCEPT !.body = LocateBody(s.body, line + 1, col + 4),
                               !.orelse = LocateBody(s.orelse, after + 1, col + 4)]
          [] HasBody(s) /\ s.k \notin {"Try", "If"} ->
                [placed EXCEPT !.body = LocateBody(s.body, line + 1, col + 4)]
          [] OTHER -> placed
LocateBody(body, line, col) ==
    IF body = <<>> THEN <<>>
    ELSE <<Locate(Head(body), line, col)>>
            \o LocateBody(Tail(body), line + Height(Head(body)), col)

(***************************************************************************)
(* Source text of a module and its tree: lead is the number of blank lines *)
(* before the first statement, body the module's statements.               *)
(***************************************************************************)
\* file.read().split('\n') of a file whose text ends with a line break
Source(lead, body) == [i \in 1..lead |-> ""] \o BodyLines(body, 0) \o <<"">>

\* ast.parse(code)
Parse(lead, body) == Module(LocateBody(body, lead + 1, 0))

(***************************************************************************)
(* The ast module's traversals.                                            *)
(***************************************************************************)
\* ast.iter_child_nodes(node): the child nodes, in the order of the node's fields
IterChildNodes(node) ==
    CASE node.k = "Module" -> node.body
      [] node.k \in {"FunctionDef", "AsyncFunctionDef"} -> <<node.args>> \o node.body
      [] node.k = "arguments" ->
            node.args
                \o (IF node.vararg = NoneNode THEN <<>> ELSE <<node.vararg>>)
                \o (IF node.kwarg = NoneNode THEN <<>> ELSE <<node.kwarg>>)
                \o node.defaults
      [] node.k = "arg" -> IF node.annotation = NoneNode THEN <<>> ELSE <<node.annotation>>
      [] node.k = "ClassDef" -> node.bases \o node.body
      [] node.k = "If" -> <<node.test>> \o node.body \o node.orelse
      [] node.k = "While" -> <<node.test>> \o node.body
      [] node.k \in {"For", "AsyncFor"} -> <<node.target, node.iter>> \o node.body
      [] node.k = "Try" -> node.body \o node.handlers
      [] node.k = "ExceptHandler" ->
            (IF node.type = NoneNode THEN <<>> ELSE <<node.type>>) \o node.body
      [] node.k = "BoolOp" -> <<node.op>> \o node.values
      [] node.k = "Expr" -> <<node.value>>
      [] node.k = "Raise" -> IF node.exc = NoneNode THEN <<>> ELSE <<node.exc>>
      [] node.k \in {"Import", "ImportFrom"} -> node.names
      [] node.k = "Call" -> <<node.func>> \o node.args
      [] node.k = "Attribute" -> <<node.value>>
      [] node.k = "Subscript" -> <<node.value, node.slice>>
      [] OTHER -> <<>>

RECURSIVE WalkQueue(_)
\* ast.walk: the nodes in breadth-first order, from a queue of nodes still to visit
WalkQueue(todo) ==
    IF todo = <<>> THEN <<>>
    ELSE <<Head(todo)>> \o WalkQueue(Tail(todo) \o IterChildNodes(Head(todo)))

\* ast.walk(node)
Walk(node) == WalkQueue(<<node>>)

\* ast.get_docstring(node)
GetDocstring(node) ==
    IF /\ node.body # <<>>
       /\ node.body[1].k = "Expr"
       /\ node.body[1].value.k = "Constant"
       /\ node.body[1].value.py = "str"
    THEN node.body[1].value.value
    ELSE None

(***************************************************************************)
(* Names of calls and attributes.                                          *)
(***************************************************************************)
RECURSIVE GetAttributeName(_)
\* _get_attribute_name(node), with _get_call_name(node.value.func) inlined where
\* node.value is a call
GetAttributeName(node) ==
    CASE node.value.k = "Name" -> node.value.id \o "." \o node.attr
      [] node.value.k = "Attribute" -> GetAttributeName(node.value) \o "." \o node.attr
      [] node.value.k = "Call" ->
            LET func == node.value.func
                call_name == CASE func.k = "Name" -> func.id
                               [] func.k = "Attribute" -> GetAttributeName(func)
                               [] OTHER -> None
            IN  IF call_name # None THEN call_name \o "()." \o node.attr
                ELSE "<call>." \o node.attr
      [] OTHER -> "<expr>." \o node.attr

\* _get_call_name(func)
GetCallName(func) ==
    CASE func.k = "Name" -> func.id
      [] func.k = "Attribute" -> GetAttributeName(func)
      [] OTHER -> None

(***************************************************************************)
(* _visit_for_analysis.  acc holds current_function_calls,                 *)
(* current_attributes and current_exceptions; the result is their value    *)
(* after the visit of node and of its descendants.                         *)
(***************************************************************************)
EmptySets == [calls |-> {}, attrs |-> {}, excs |-> {}]

\* the node's own contribution: the if / elif chain of _visit_for_analysis
VisitNode(node, acc) ==
    CASE node.k = "Call" ->
            IF GetCallName(node.func) # None
            THEN [acc EXCEPT !.calls = @ \cup {GetCallName(node.func)}]
            ELSE acc
      [] node.k = "Attribute" -> [acc EXCEPT !.attrs = @ \cup {GetAttributeName(node)}]
      [] node.k = "Raise" ->
            IF node.exc = NoneNode THEN acc
            ELSE IF node.exc.k = "Call" /\ node.exc.func.k = "Name"
                 THEN [acc EXCEPT !.excs = @ \cup {node.exc.func.id}]
            ELSE IF node.exc.k = "Name"
                 THEN [acc EXCEPT !.excs = @ \cup {node.exc.id}]
            ELSE acc
      [] OTHER -> acc

RECURSIVE VisitForAnalysis(_, _)
RECURSIVE VisitAll(_, _)
VisitForAnalysis(node, acc) == VisitAll(IterChildNodes(node), VisitNode(node, acc))
\* the visit of each node of a sequence in turn
VisitAll(nodes, acc) ==
    IF nodes = <<>> THEN acc
    ELSE VisitAll(Tail(nodes), VisitForAnalysis(Head(nodes), acc))

(***************************************************************************)
(* dict and list helpers.  A dict is a function whose domain is its keys.  *)
(***************************************************************************)
EmptyDict == [x \in {} |-> None]

\* d[key] = value
DictSet(d, key, value) ==
    [x \in DOMAIN d \cup {key} |-> IF x = key THEN value ELSE d[x]]

\* {**d, **e}
DictMerge(d, e) ==
    [x \in DOMAIN d \cup DOMAIN e |-> IF x \in DOMAIN e THEN e[x] ELSE d[x]]

Upper == <<"A", "B", "C", "D", "E", "F", "G", "H", "I", "J", "K", "L", "M",
           "N", "O", "P", "Q", "R", "S", "T", "U", "V", "W", "X", "Y", "Z">>
LowerOf == <<"a", "b", "c", "d", "e", "f", "g", "h", "i", "j", "k", "l", "m",
             "n", "o", "p", "q", "r", "s", "t", "u", "v", "w", "x", "y", "z">>

RECURSIVE Lower(_)
\* s.lower()
Lower(s) ==
    IF s = "" THEN ""
    ELSE LET c == CharAt(s, 1)
             lc == IF \E i \in 1..26 : Upper[i] = c
                   THEN LowerOf[CHOOSE i \in 1..26 : Upper[i] = c]
                   ELSE c
         IN  lc \o Lower(SubSeq(s, 2, Len(s)))

(***************************************************************************)
(* The analyses of extract_chunk_metadata.                                 *)
(***************************************************************************)
\* the base_classes list of _extract_class_enhancements
BaseClasses(node) ==
    LET named == SelectSeq(node.bases, LAMBDA b : b.k \in {"Name", "Attribute"})
    IN  [i \in 1..Len(named) |->
            IF named[i].k = "Name" THEN named[i].id ELSE GetAttributeName(named[i])]

\* the methods list of _extract_class_enhancements
MethodNames(node) ==
    LET defs == SelectSeq(node.body, LAMBDA item : item.k \in FunctionKinds)
    IN  [i \in 1..Len(defs) |-> defs[i].name]

\* the is_abstract flag, were "ABC" looked for whatever the case of the letters
IsAbstractAnyCase(base_classes) ==
    \E i \in 1..Len(base_classes) :
        Contains(Lower(base_classes[i]), "abc") \/ Contains(Lower(base_classes[i]), "abstract")

\* the is_abstract flag of _extract_class_enhancements
IsAbstract(base_classes) ==
    \E i \in 1..Len(base_classes) :
        Contains(base_classes[i], "ABC") \/ Contains(Lower(base_classes[i]), "abstract")

\* _extract_class_enhancements(node): the fields it returns
ExtractClassEnhancements(node) ==
    [base_classes |-> BaseClasses(node),
     methods |-> MethodNames(node),
     is_abstract |-> IsAbstract(BaseClasses(node))]

\* _check_method_override, were it to look for the call name "super()" itself
CheckMethodOverrideToken(method_name, class_name, hierarchy, calls) ==
    IF class_name = None \/ class_name \notin DOMAIN hierarchy THEN FALSE
    ELSE IF hierarchy[class_name] = <<>> THEN FALSE
    ELSE "super()" \in calls

\* _check_method_override, were it not to look at the base classes
CheckMethodOverrideAnyClass(method_name, class_name, hierarchy, calls) ==
    IF class_name = None \/ class_name \notin DOMAIN hierarchy THEN FALSE
    ELSE \E call \in calls : Contains(call, "super()")

\* _check_method_override, were it to look at the bases of every recorded class
CheckMethodOverrideAnyRecorded(method_name, class_name, hierarchy, calls) ==
    IF class_name = None \/ class_name \notin DOMAIN hierarchy THEN FALSE
    ELSE IF \A name \in DOMAIN hierarchy : hierarchy[name] = <<>> THEN FALSE
    ELSE \E call \in calls : Contains(call, "super()")

\* _check_method_override(method_name, class_name) with class_hierarchy = hierarchy
\* and current_function_calls = calls
CheckMethodOverride(method_name, class_name, hierarchy, calls) ==
    IF class_name = None \/ class_name \notin DOMAIN hierarchy THEN FALSE
    ELSE IF hierarchy[class_name] = <<>> THEN FALSE
    ELSE \E call \in calls : Contains(call, "super()")

\* _get_used_imports(), were the plain imports to overlay the from-imports
GetUsedImportsPlainOver(imports, from_imports, calls, attrs) ==
    LET all_imports == DictMerge(from_imports, imports)
    IN  {all_imports[imported_name] : imported_name \in
            {n \in DOMAIN all_imports : \E used \in calls \cup attrs : StartsWith(used, n)}}

\* _get_used_imports() with the two import tables and the collected sets
GetUsedImports(imports, from_imports, calls, attrs) ==
    LET all_imports == DictMerge(imports, from_imports)
    IN  {all_imports[imported_name] : imported_name \in
            {n \in DOMAIN all_imports : \E used \in calls \cup attrs : StartsWith(used, n)}}

RECURSIVE GetAnnotation(_)
\* _get_annotation(annotation)
GetAnnotation(annotation) ==
    CASE annotation.k = "Name" -> annotation.id
      [] annotation.k = "Attribute" -> GetAttributeName(annotation)
      [] annotation.k = "Subscript" ->
            GetAnnotation(annotation.value) \o "[" \o GetAnnotation(annotation.slice) \o "]"
      [] annotation.k = "Constant" -> Repr(annotation)
      [] OTHER -> Unparse(annotation)

\* _get_default_value(default)
GetDefaultValue(default) ==
    CASE default.k = "Constant" -> Repr(default)
      [] default.k = "Name" -> default.id
      [] default.k = "Attribute" -> GetAttributeName(default)
      [] OTHER -> Unparse(default)

\* the type of a param_info
TypeOf(arg) == IF arg.annotation # NoneNode THEN GetAnnotation(arg.annotation) ELSE None

\* the entries of _parse_parameters for *args and **kwargs
Variadics(args) ==
    (IF args.vararg # NoneNode
     THEN <<[name |-> "*" \o args.vararg.arg, type |-> TypeOf(args.vararg),
             default |-> None, kind |-> "var_positional"]>>
     ELSE <<>>)
    \o (IF args.kwarg # NoneNode
        THEN <<[name |-> "**" \o args.kwarg.arg, type |-> TypeOf(args.kwarg),
                default |-> None, kind |-> "var_keyword"]>>
        ELSE <<>>)

\* _parse_parameters(args), were the defaults given to the first parameters
ParseParametersFromHead(args) ==
    [i \in 1..Len(args.args) |->
        [name |-> args.args[i].arg,
         type |-> TypeOf(args.args[i]),
         default |-> IF i <= Len(args.defaults) THEN GetDefaultValue(args.defaults[i]) ELSE None,
         kind |-> "positional"]]
    \o Variadics(args)

\* _parse_parameters(args); the code's i counts from 0, this i from 1
ParseParameters(args) ==
    LET default_offset == Len(args.args) - Len(args.defaults)
    IN  [i \in 1..Len(args.args) |->
            [name |-> args.args[i].arg,
             type |-> TypeOf(args.args[i]),
             default |-> IF i - 1 >= default_offset
                         THEN GetDefaultValue(args.defaults[(i - 1) - default_offset + 1])
                         ELSE None,
             kind |-> "positional"]]
        \o Variadics(args)

RECURSIVE CountBranches(_, _)
\* the loop of _calculate_complexity over the nodes still to visit
CountBranches(nodes, complexity) ==
    IF nodes = <<>> THEN complexity
    ELSE LET child == Head(nodes)
         IN  CountBranches(Tail(nodes),
                           IF child.k \in {"If", "While", "For", "AsyncFor"} THEN complexity + 1
                           ELSE IF child.k = "ExceptHandler" THEN complexity + 1
                           ELSE IF child.k \in {"And", "Or"} THEN complexity + 1
                           ELSE complexity)

RECURSIVE CountBranchesPerTry(_, _)
\* the loop of _calculate_complexity, were it to count try statements, not handlers
CountBranchesPerTry(nodes, complexity) ==
    IF nodes = <<>> THEN complexity
    ELSE LET child == Head(nodes)
         IN  CountBranchesPerTry(Tail(nodes),
                                 IF child.k \in {"If", "While", "For", "AsyncFor"} THEN complexity + 1
                                 ELSE IF child.k = "Try" THEN complexity + 1
                                 ELSE IF child.k \in {"And", "Or"} THEN complexity + 1
                                 ELSE complexity)

\* _calculate_complexity(node)
\* _calculate_complexity(node), were it to count try statements, not handlers
CalculateComplexityPerTry(node) == CountBranchesPerTry(Walk(node), 1)

\* _calculate_complexity(node)
CalculateComplexity(node) == CountBranches(Walk(node), 1)

\* the sets collected by _extract_function_enhancements(node, class_name): reset,
\* then one visit per statement of the body
FunctionSets(node) == VisitAll(node.body, EmptySets)

\* _extract_function_enhancements(node, class_name): the fields it returns, but
\* decorators and return_annotation
ExtractFunctionEnhancements(node, class_name, hierarchy, imports, from_imports) ==
    LET sets == FunctionSets(node)
    IN  [parameters |-> ParseParameters(node.args),
         calls_functions |-> sets.calls,
         accesses_attributes |-> sets.attrs,
         imports_used |-> GetUsedImports(imports, from_imports, sets.calls, sets.attrs),
         raises_exceptions |-> sets.excs,
         overrides_method |-> CheckMethodOverride(node.name, class_name, hierarchy, sets.calls),
         complexity_score |-> CalculateComplexity(node)]

\* metadata.update(more)
Update(metadata, more) ==
    [f \in DOMAIN metadata \cup DOMAIN more |-> IF f \in DOMAIN more THEN more[f] ELSE metadata[f]]

\* extract_chunk_metadata(node, chunk_code, class_name, class_docstring, filepath):
\* the record it returns
ExtractChunkMetadata(node, chunk_code, class_name, class_docstring, filepath, hierarchy, imports, from_imports) ==
    LET metadata ==
            [type |-> node.k,
             name |-> node.name,
             code |-> StripText(chunk_code),
             start_line |-> node.lineno,
             end_line |-> node.end_lineno,
             docstring |-> GetDocstring(node),
             class_name |-> class_name,
             class_docstring |-> class_docstring,
             method_name |-> IF node.k \in FunctionKinds THEN node.name ELSE None,
             is_async |-> node.k = "AsyncFunctionDef",
             is_function |-> node.k \in FunctionKinds,
             filepath |-> filepath,
             filename |-> LastSegment(filepath)]
    IN  IF node.k \in FunctionKinds
        THEN Update(metadata, ExtractFunctionEnhancements(node, class_name, hierarchy,
                                                          imports, from_imports))
        ELSE Update(metadata, ExtractClassEnhancements(node))

\* class_hierarchy after extract_chunk_metadata(node, ...), were
\* _extract_class_enhancements to leave the entry of a class already recorded
HierarchyAfterKeepingEarlier(node, hierarchy) ==
    IF node.k = "ClassDef" /\ node.name \notin DOMAIN hierarchy
    THEN DictSet(hierarchy, node.name, BaseClasses(node))
    ELSE hierarchy

\* class_hierarchy after extract_chunk_metadata(node, ...)
HierarchyAfter(node, hierarchy) ==
    IF node.k = "ClassDef" THEN DictSet(hierarchy, node.name, BaseClasses(node))
    ELSE hierarchy

RECURSIVE ImportsFrom(_, _)
\* _extract_imports: the two tables after the loop over the nodes still to visit
ImportsFrom(nodes, tables) ==
    IF nodes = <<>> THEN tables
    ELSE LET node == Head(nodes)
             RECURSIVE Add(_, _)
             Add(names, t) ==
                IF names = <<>> THEN t
                ELSE LET alias == Head(names)
                         asname == IF alias.asname # None THEN alias.asname ELSE alias.name
                     IN  IF node.k = "Import"
                         THEN Add(Tail(names), [t EXCEPT !.imports = DictSet(@, asname, alias.name)])
                         ELSE Add(Tail(names),
                                  [t EXCEPT !.from_imports =
                                      DictSet(@, asname,
                                              IF node.module # "" THEN node.module \o "." \o alias.name
                                              ELSE alias.name)])
         IN  IF node.k \in {"Import", "ImportFrom"}
             THEN ImportsFrom(Tail(nodes), Add(node.names, tables))
             ELSE ImportsFrom(Tail(nodes), tables)

\* _extract_imports(tree): current_imports and current_from_imports afterwards
ExtractImports(tree) == ImportsFrom(Walk(tree), [imports |-> EmptyDict, from_imports |-> EmptyDict])

\* extract_node_code(node, original_code)
ExtractNodeCode(node, original_code) ==
    Dedent(Join(Slice(original_code, node.lineno - 1, node.end_lineno)))

(***************************************************************************)
(* The module bodies the model's files are drawn from.                     *)
(***************************************************************************)
\* import os / from helpers import fetch as get / def area / async def load
ModFunctions ==
    <<Import(<<Alias("os", None)>>),
      ImportFrom("helpers", <<Alias("fetch", "get")>>),
      FunctionDef("area", <<Pass>>),
      AsyncFunctionDef("load", <<CallStmt(Name("get")),
                                 CallStmt(Attribute(Attribute(Name("os"), "path"), "join"))>>)>>

\* a function declared in the body of a function
ModNested ==
    <<FunctionDef("outer", <<FunctionDef("inner", <<CallStmt(Name("helper"))>>)>>)>>

\* class Base with no bases: area, and scale that calls super().scale()
ModBase ==
    <<ClassDef("Base", <<>>, <<FunctionDef("area", <<Pass>>),
                               FunctionDef("scale", <<SuperCall("scale")>>)>>)>>

\* class Shape(Base) with a docstring, __init__, an override and a plain method
ModShape ==
    <<ClassDef("Shape", <<Name("Base")>>,
               <<Doc("A shape."),
                 FunctionDef("__init__", <<SuperCall("__init__")>>),
                 FunctionDef("area", <<SuperCall("area")>>),
                 AsyncFunctionDef("perimeter", <<CallStmt(Name("helper"))>>)>>)>>

\* a Django migration
ModMigration ==
    <<ClassDef("Migration", <<Attribute(Name("migrations"), "Migration")>>,
               <<FunctionDef("forwards", <<Pass>>)>>)>>

\* a class named Migration declared in the body of another class
ModInnerMigration ==
    <<ClassDef("Outer", <<>>,
               <<ClassDef("Migration", <<>>, <<FunctionDef("forwards", <<Pass>>)>>)>>)>>

\* a class that follows a function: the class does not start on the file's line 1
ModSecond ==
    <<FunctionDef("first", <<Pass>>),
      ClassDef("Circle", <<Name("Shape")>>, <<FunctionDef("area", <<SuperCall("area")>>)>>)>>

Modules ==
    <<ModFunctions, ModNested, ModBase, ModShape, ModMigration, ModInnerMigration, ModSecond>>

(***************************************************************************)
(* Files.  kind says what open(), file.read() and ast.parse() do with the  *)
(* file: "ok", or the exception raised.  A file that parses is lead blank  *)
(* lines followed by the text of Modules[mod].                             *)
(***************************************************************************)
FileKinds == {"ok", "unreadable", "undecodable", "syntax"}

File(kind, lead, mod) == [kind |-> kind, lead |-> lead, mod |-> mod]

OkFiles == {File("ok", lead, m) : lead \in 0..MaxLead, m \in 1..Len(Modules)}

Files == OkFiles \cup {File(kind, 0, 0) : kind \in FileKinds \ {"ok"}}

(***************************************************************************)
(* Sample files.  A sample is one declaration drawn from a family, alone   *)
(* in a file with no blank line before it; the record `sample` says which  *)
(* member of which family.                                                 *)
(***************************************************************************)
\* the most base classes a sample class has
MaxBases == 2

\* ABC, abc.ABC, AbstractShape, abstract_base, collections.abc.Mapping, Base,
\* make_base(), Generic[T]
SampleBases ==
    <<Name("ABC"),
      Attribute(Name("abc"), "ABC"),
      Name("AbstractShape"),
      Name("abstract_base"),
      Attribute(Attribute(Name("collections"), "abc"), "Mapping"),
      Name("Base"),
      Call(Name("make_base"), <<>>),
      Subscript(Name("Generic"), Name("T"))>>

\* class Model(<bases>): pass, for each list of at most MaxBases sample bases
ClassSamples ==
    {[family |-> "class", bases |-> bases] :
        bases \in UNION {[1..n -> 1..Len(SampleBases)] : n \in 0..MaxBases}}

\* the most statements the body of a sample function has
MaxStmts == 2

\* the statements the bodies of the sample functions are made of
SampleStmts ==
    <<Pass,
      \* if x: pass
      If(Name("x"), <<Pass>>, <<>>),
      \* if a and b and c: pass
      If(BoolOp(And, <<Name("a"), Name("b"), Name("c")>>), <<Pass>>, <<>>),
      \* if a and b or c: pass / else: pass
      If(BoolOp(Or, <<BoolOp(And, <<Name("a"), Name("b")>>), Name("c")>>), <<Pass>>, <<Pass>>),
      \* if x: pass / else: if y: pass
      If(Name("x"), <<Pass>>, <<If(Name("y"), <<Pass>>, <<>>)>>),
      \* a loop that contains two ifs
      For(Name("item"), Name("items"),
          <<If(Name("x"), <<Pass>>, <<>>), If(Name("y"), <<Pass>>, <<>>)>>),
      \* one if, one for and one except
      Try(<<For(Name("item"), Name("items"), <<If(Name("x"), <<Pass>>, <<>>)>>)>>,
          <<ExceptHandler(Name("ValueError"), <<Pass>>)>>),
      \* a try with two handlers, the second a bare except
      Try(<<Pass>>, <<ExceptHandler(Name("KeyError"), <<Pass>>),
                      ExceptHandler(NoneNode, <<Pass>>)>>),
      \* while x: async for item in items: pass
      While(Name("x"), <<AsyncFor(Name("item"), Name("items"), <<Pass>>)>>),
      \* a or b, as a statement
      Expr(BoolOp(Or, <<Name("a"), Name("b")>>)),
      \* a function of the body, with an if of its own
      FunctionDef("inner", <<If(Name("x"), <<Pass>>, <<>>)>>)>>

\* def work(): <body>, for each body of 1..MaxStmts sample statements
FunctionSamples ==
    {[family |-> "function", body |-> body] :
        body \in UNION {[1..n -> 1..Len(SampleStmts)] : n \in 1..MaxStmts}}

\* the most positional parameters a sample parameter list has
MaxParams == 3

\* the defaults of the sample parameter lists, taken in turn: 1, 'x', DEFAULT,
\* config.LIMIT, make(), a or b
SampleDefaults ==
    <<IntConstant(1), Constant("x"), Name("DEFAULT"), Attribute(Name("config"), "LIMIT"),
      Call(Name("make"), <<>>), BoolOp(Or, <<Name("a"), Name("b")>>)>>

\* the annotations of the sample parameter lists, taken in turn: none, none, int,
\* List[str], typing.Any
SampleAnnotations ==
    <<NoneNode, NoneNode, Name("int"), Subscript(Name("List"), Name("str")),
      Attribute(Name("typing"), "Any")>>

\* def work(<parameters>): pass, for n positional parameters a, b, c, ... of which the
\* last d have a default, with or without *args and **kwargs
ParameterSamples ==
    {sample \in [family : {"parameters"}, n : 0..MaxParams, d : 0..MaxParams,
                 vararg : BOOLEAN, kwarg : BOOLEAN] : sample.d <= sample.n}

\* the i-th of a sequence's items taken in turn
InTurn(seq, i) == seq[((i - 1) % Len(seq)) + 1]

\* the parameter list of a parameter sample
SampleArguments(sample) ==
    Arguments([i \in 1..sample.n |-> Arg(LowerOf[i], InTurn(SampleAnnotations, i))],
              [j \in 1..sample.d |-> InTurn(SampleDefaults, j)],
              IF sample.vararg THEN Arg("args", NoneNode) ELSE NoneNode,
              IF sample.kwarg THEN Arg("kwargs", NoneNode) ELSE NoneNode)

\* the most import statements a sample module has
MaxImports == 2

\* the import statements of the sample modules
SampleImports ==
    <<Import(<<Alias("os", None)>>),
      Import(<<Alias("numpy", "np")>>),
      ImportFrom("helpers", <<Alias("fetch", "get")>>),
      Import(<<Alias("get", None)>>),
      ImportFrom("", <<Alias("local", None)>>),
      ImportFrom("os", <<Alias("path", None), Alias("sep", "separator")>>)>>

\* the statements the sample modules' function uses the imports with: get(),
\* os.path.join(), osmosis(), np.pi, local.run().value, pass
SampleUses ==
    <<CallStmt(Name("get")),
      CallStmt(Attribute(Attribute(Name("os"), "path"), "join")),
      CallStmt(Name("osmosis")),
      Expr(Attribute(Name("np"), "pi")),
      Expr(Attribute(Call(Attribute(Name("local"), "run"), <<>>), "value")),
      Pass>>

\* <imports> / def work(): <use>, for each list of at most MaxImports sample imports
\* and each sample use
ImportSamples ==
    {[family |-> "imports", imports |-> imports, use |-> use] :
        imports \in UNION {[1..n -> 1..Len(SampleImports)] : n \in 0..MaxImports},
        use \in 1..Len(SampleUses)}

\* the most statements the body of a sample function of calls and raises has
MaxCalls == 2

\* the calls and raise statements of the sample functions
SampleCallStmts ==
    <<\* make().run()
      CallStmt(Attribute(Call(Name("make"), <<>>), "run")),
      \* items[0].run()
      CallStmt(Attribute(Subscript(Name("items"), IntConstant(0)), "run")),
      \* makers[0]().run()
      CallStmt(Attribute(Call(Subscript(Name("makers"), IntConstant(0)), <<>>), "run")),
      \* handlers[0]()
      CallStmt(Subscript(Name("handlers"), IntConstant(0))),
      \* raise ValueError()
      Raise(Call(Name("ValueError"), <<>>)),
      \* raise KeyError
      Raise(Name("KeyError")),
      \* raise errors.MyError()
      Raise(Call(Attribute(Name("errors"), "MyError"), <<>>)),
      \* raise errors.Stop
      Raise(Attribute(Name("errors"), "Stop")),
      \* try: pass / except LookupError: raise
      Try(<<Pass>>, <<ExceptHandler(Name("LookupError"), <<Raise(NoneNode)>>)>>)>>

\* def work(): <body>, for each body of 1..MaxCalls sample calls and raises
CallSamples ==
    {[family |-> "calls", body |-> body] :
        body \in UNION {[1..n -> 1..Len(SampleCallStmts)] : n \in 1..MaxCalls}}

\* the base lists of the classes of the sample files with two classes: none, Base,
\* and Shape, mixins.Named
SampleBaseLists ==
    <<<<>>,
      <<Name("Base")>>,
      <<Name("Shape"), Attribute(Name("mixins"), "Named")>>>>

\* class Model(<first>): pass / class Model(<second>): def g: super().g() / def h: pass,
\* for each two sample base lists: two classes of one name in one file
HierarchySamples ==
    {[family |-> "hierarchy", first |-> first, second |-> second] :
        first \in 1..Len(SampleBaseLists), second \in 1..Len(SampleBaseLists)}

Samples ==
    ClassSamples \cup FunctionSamples \cup ParameterSamples \cup ImportSamples
        \cup CallSamples \cup HierarchySamples

\* the statements of a sample's file
SampleBody(sample) ==
    CASE sample.family = "class" ->
            <<ClassDef("Model", [i \in 1..Len(sample.bases) |-> SampleBases[sample.bases[i]]],
                       <<Pass>>)>>
      [] sample.family = "function" ->
            <<FunctionDef("work", [i \in 1..Len(sample.body) |-> SampleStmts[sample.body[i]]])>>
      [] sample.family = "imports" ->
            [i \in 1..Len(sample.imports) |-> SampleImports[sample.imports[i]]]
                \o <<FunctionDef("work", <<SampleUses[sample.use]>>)>>
      [] sample.family = "parameters" ->
            <<WithArgs(FunctionDef("work", <<Pass>>), SampleArguments(sample))>>
      [] sample.family = "hierarchy" ->
            <<ClassDef("Model", SampleBaseLists[sample.first], <<Pass>>),
              ClassDef("Model", SampleBaseLists[sample.second],
                       <<FunctionDef("g", <<SuperCall("g")>>), FunctionDef("h", <<Pass>>)>>)>>
      [] sample.family = "calls" ->
            <<FunctionDef("work", [i \in 1..Len(sample.body) |-> SampleCallStmts[sample.body[i]]])>>

SampleFile(sample) == [kind |-> "ok", lead |-> 0, mod |-> 0, sample |-> sample]

SampleFiles == {SampleFile(sample) : sample \in Samples}

\* the statements of a file that parses
ModuleOf(f) == IF f.mod > 0 THEN Modules[f.mod] ELSE SampleBody(f.sample)

\* the nodes of ast.walk(tree) that chunk_python_code's isinstance test lets through
Declarations(tree) == SelectSeq(Walk(tree), LAMBDA n : n.k \in DeclKinds)

\* per file that parses: code.split('\n'), ast.parse(code), and the declarations of
\* the walk
LinesOf == [f \in OkFiles \cup SampleFiles |-> Source(f.lead, ModuleOf(f))]
TreeOf == [f \in OkFiles \cup SampleFiles |-> Parse(f.lead, ModuleOf(f))]
DeclarationsOf == [f \in OkFiles \cup SampleFiles |-> Declarations(TreeOf[f])]

\* the repositories: the sequences of at most MaxFiles files
Repos == UNION {[1..n -> Files] : n \in 0..MaxFiles}

\* the file of ModFunctions: two imports and two functions
FirstFile == File("ok", 0, 1)

\* the repositories of one file, a sample file or one of Files, and those of a
\* sample file that follows FirstFile
SampleRepos ==
    {<<f>> : f \in Files \cup SampleFiles} \cup {<<FirstFile, f>> : f \in SampleFiles}

\* os.path.join(root, file) of the i-th file get_python_files yields
FilePath(i) == "repo/f" \o ToString(i) \o ".py"

(***************************************************************************)
(* The service's state.                                                    *)
(***************************************************************************)
VARIABLES
    repo,                     \* the files get_python_files yields, in its order
    pc,                       \* where parse_code is: "loop", "walk", "methods",
                              \*   "returned", or "raised" (an exception left it);
                              \*   "indexed" once its chunks have been indexed
    fi,                       \* parse_code: the position of file_path in repo
    ni,                       \* chunk_python_code: the position of node in the walk
    mi,                       \* extract_methods_from_class: the position of item
    out,                      \* parse_code's chunks
    chunks,                   \* chunk_python_code's chunks
    class_chunks,             \* extract_methods_from_class's chunks
    warnings,                 \* the files a warning was printed for, in order
    class_hierarchy,          \* self.class_hierarchy
    current_imports,          \* self.current_imports
    current_from_imports,     \* self.current_from_imports
    current_function_calls,   \* self.current_function_calls
    current_attributes,       \* self.current_attributes
    current_exceptions,       \* self.current_exceptions
    collection                \* the documents of the indexing service's collection,
                              \*   by id, once index_chunks has been called

vars ==
    <<repo, pc, fi, ni, mi, out, chunks, class_chunks, warnings, class_hierarchy,
      current_imports, current_from_imports, current_function_calls,
      current_attributes, current_exceptions, collection>>

analyzer ==
    <<class_hierarchy, current_imports, current_from_imports, current_function_calls,
      current_attributes, current_exceptions>>

\* PythonCodeParserService(repo_path), before parse_code's first iteration
Init ==
    /\ repo \in Repos
    /\ pc = "loop"
    /\ fi = 1
    /\ ni = 1
    /\ mi = 1
    /\ out = <<>>
    /\ chunks = <<>>
    /\ class_chunks = <<>>
    /\ warnings = <<>>
    /\ class_hierarchy = EmptyDict
    /\ current_imports = EmptyDict
    /\ current_from_imports = EmptyDict
    /\ current_function_calls = {}
    /\ current_attributes = {}
    /\ current_exceptions = {}
    /\ collection = EmptyDict

(***************************************************************************)
(* The loops' current values.                                              *)
(***************************************************************************)
\* code.split('\n') of the file parse_code is at
Lines == LinesOf[repo[fi]]

\* the declarations chunk_python_code's loop goes through
Nodes == DeclarationsOf[repo[fi]]

\* the items of class_node.body that extract_methods_from_class's isinstance test
\* lets through
Methods(class_node) == SelectSeq(class_node.body, LAMBDA item : item.k \in FunctionKinds)

\* chunk_code of chunk_python_code
ChunkCode(node, lines) == Join(Slice(lines, node.lineno - 1, node.end_lineno))

\* the first skip, were it to apply to the classes of the file's top level only
IsTopLevelMigrationClass(node) ==
    node.k = "ClassDef" /\ node.name = "Migration" /\ node.col_offset = 0

\* the first skip of chunk_python_code
IsMigrationClass(node) == node.k = "ClassDef" /\ node.name = "Migration"

\* the names of the second skip of chunk_python_code
ExcludedNames == {"__init__", "__str__", "__repr__", "__call__"}

IsExcludedName(node) == node.name \in ExcludedNames

\* the code extract_methods_from_class takes a method's lines from: the chunk_code
\* of the class that chunk_python_code passes as `code`
MethodCode(item, class_node, lines) == ExtractNodeCode(item, ChunkCode(class_node, lines))

\* the test of the empty span, were it never to hold
IsEmptySpanNever(method_code) == FALSE

\* method_code.strip() == ""
IsEmptySpan(method_code) == IsBlankText(method_code)

(***************************************************************************)
(* parse_code: one iteration of the loop over the files.                   *)
(***************************************************************************)
\* open() or file.read() raises OSError, which parse_code does not catch
ReadFails ==
    /\ pc = "loop" /\ fi <= Len(repo)
    /\ repo[fi].kind = "unreadable"
    /\ pc' = "raised"
    /\ UNCHANGED <<repo, collection, fi, ni, mi, out, chunks, class_chunks, warnings, analyzer>>

\* file.read() raises UnicodeDecodeError: the warning is printed, the loop continues
DecodeFails ==
    /\ pc = "loop" /\ fi <= Len(repo)
    /\ repo[fi].kind = "undecodable"
    /\ warnings' = Append(warnings, FilePath(fi))
    /\ fi' = fi + 1
    /\ UNCHANGED <<repo, collection, pc, ni, mi, out, chunks, class_chunks, analyzer>>

\* the except clause of parse_code, were it to leave the loop
ParseFailsAndStops ==
    /\ pc = "loop" /\ fi <= Len(repo)
    /\ repo[fi].kind = "syntax"
    /\ warnings' = Append(warnings, FilePath(fi))
    /\ fi' = Len(repo) + 1
    /\ UNCHANGED <<repo, collection, pc, ni, mi, out, chunks, class_chunks, analyzer>>

\* ast.parse raises SyntaxError in chunk_python_code, before anything else is done
ParseFails ==
    /\ pc = "loop" /\ fi <= Len(repo)
    /\ repo[fi].kind = "syntax"
    /\ warnings' = Append(warnings, FilePath(fi))
    /\ fi' = fi + 1
    /\ UNCHANGED <<repo, collection, pc, ni, mi, out, chunks, class_chunks, analyzer>>

\* chunk_python_code up to its loop, were _extract_imports not to empty the tables
BeginFileKeepingImports ==
    /\ pc = "loop" /\ fi <= Len(repo)
    /\ repo[fi].kind = "ok"
    /\ chunks' = <<>>
    /\ current_imports' = DictMerge(current_imports, ExtractImports(TreeOf[repo[fi]]).imports)
    /\ current_from_imports' =
            DictMerge(current_from_imports, ExtractImports(TreeOf[repo[fi]]).from_imports)
    /\ ni' = 1
    /\ pc' = "walk"
    /\ UNCHANGED <<repo, collection, fi, mi, out, class_chunks, warnings, class_hierarchy,
                   current_function_calls, current_attributes, current_exceptions>>

\* chunk_python_code up to its loop: the tree is parsed and the imports extracted
BeginFile ==
    /\ pc = "loop" /\ fi <= Len(repo)
    /\ repo[fi].kind = "ok"
    /\ chunks' = <<>>
    /\ current_imports' = ExtractImports(TreeOf[repo[fi]]).imports
    /\ current_from_imports' = ExtractImports(TreeOf[repo[fi]]).from_imports
    /\ ni' = 1
    /\ pc' = "walk"
    /\ UNCHANGED <<repo, collection, fi, mi, out, class_chunks, warnings, class_hierarchy,
                   current_function_calls, current_attributes, current_exceptions>>

\* the loop over the files is over: return chunks
Return ==
    /\ pc = "loop" /\ fi > Len(repo)
    /\ pc' = "returned"
    /\ UNCHANGED <<repo, collection, fi, ni, mi, out, chunks, class_chunks, warnings, analyzer>>

(***************************************************************************)
(* chunk_python_code: one iteration of the loop over the declarations.     *)
(***************************************************************************)
\* a class named Migration, or an excluded name: continue
SkipNode ==
    /\ pc = "walk" /\ ni <= Len(Nodes)
    /\ IsMigrationClass(Nodes[ni]) \/ IsExcludedName(Nodes[ni])
    /\ ni' = ni + 1
    /\ UNCHANGED <<repo, collection, pc, fi, mi, out, chunks, class_chunks, warnings, analyzer>>

\* the sets of the analyzer after extract_chunk_metadata(node, ...)
AnalyzeNode(node) ==
    /\ class_hierarchy' = HierarchyAfter(node, class_hierarchy)
    /\ IF node.k \in FunctionKinds
       THEN /\ current_function_calls' = FunctionSets(node).calls
            /\ current_attributes' = FunctionSets(node).attrs
            /\ current_exceptions' = FunctionSets(node).excs
       ELSE UNCHANGED <<current_function_calls, current_attributes, current_exceptions>>
    /\ UNCHANGED <<current_imports, current_from_imports>>

\* a function: its chunk is appended, were _extract_function_enhancements not to
\* reset the three sets
EmitFunctionKeepingSets ==
    /\ pc = "walk" /\ ni <= Len(Nodes)
    /\ ~IsMigrationClass(Nodes[ni]) /\ ~IsExcludedName(Nodes[ni])
    /\ Nodes[ni].k \in FunctionKinds
    /\ LET sets == VisitAll(Nodes[ni].body,
                            [calls |-> current_function_calls, attrs |-> current_attributes,
                             excs |-> current_exceptions])
           chunk == ExtractChunkMetadata(Nodes[ni], ChunkCode(Nodes[ni], Lines), None, None,
                                         FilePath(fi), class_hierarchy,
                                         current_imports, current_from_imports)
       IN  /\ chunks' = Append(chunks,
                               [chunk EXCEPT !.calls_functions = sets.calls,
                                             !.accesses_attributes = sets.attrs,
                                             !.raises_exceptions = sets.excs,
                                             !.imports_used =
                                                 GetUsedImports(current_imports,
                                                                current_from_imports,
                                                                sets.calls, sets.attrs)])
           /\ current_function_calls' = sets.calls
           /\ current_attributes' = sets.attrs
           /\ current_exceptions' = sets.excs
    /\ ni' = ni + 1
    /\ UNCHANGED <<repo, collection, pc, fi, mi, out, class_chunks, warnings, class_hierarchy,
                   current_imports, current_from_imports>>

\* a function: its chunk is appended
EmitFunction ==
    /\ pc = "walk" /\ ni <= Len(Nodes)
    /\ ~IsMigrationClass(Nodes[ni]) /\ ~IsExcludedName(Nodes[ni])
    /\ Nodes[ni].k \in FunctionKinds
    /\ chunks' = Append(chunks,
                        ExtractChunkMetadata(Nodes[ni], ChunkCode(Nodes[ni], Lines), None, None,
                                             FilePath(fi), class_hierarchy,
                                             current_imports, current_from_imports))
    /\ AnalyzeNode(Nodes[ni])
    /\ ni' = ni + 1
    /\ UNCHANGED <<repo, collection, pc, fi, mi, out, class_chunks, warnings>>

\* a class: its chunk is appended and extract_methods_from_class is entered
EmitClass ==
    /\ pc = "walk" /\ ni <= Len(Nodes)
    /\ ~IsMigrationClass(Nodes[ni]) /\ ~IsExcludedName(Nodes[ni])
    /\ Nodes[ni].k = "ClassDef"
    /\ chunks' = Append(chunks,
                        ExtractChunkMetadata(Nodes[ni], ChunkCode(Nodes[ni], Lines), None, None,
                                             FilePath(fi), class_hierarchy,
                                             current_imports, current_from_imports))
    /\ AnalyzeNode(Nodes[ni])
    /\ class_chunks' = <<>>
    /\ mi' = 1
    /\ pc' = "methods"
    /\ UNCHANGED <<repo, collection, fi, ni, out, warnings>>

\* the walk is over: chunk_python_code returns and parse_code extends its chunks
EndFile ==
    /\ pc = "walk" /\ ni > Len(Nodes)
    /\ out' = out \o chunks
    /\ fi' = fi + 1
    /\ pc' = "loop"
    /\ UNCHANGED <<repo, collection, ni, mi, chunks, class_chunks, warnings, analyzer>>

(***************************************************************************)
(* extract_methods_from_class: one iteration of the loop over the methods. *)
(***************************************************************************)
\* the span is empty after trimming: continue
DropMethod ==
    /\ pc = "methods" /\ mi <= Len(Methods(Nodes[ni]))
    /\ IsEmptySpan(MethodCode(Methods(Nodes[ni])[mi], Nodes[ni], Lines))
    /\ mi' = mi + 1
    /\ UNCHANGED <<repo, collection, pc, fi, ni, out, chunks, class_chunks, warnings, analyzer>>

\* the method's chunk is appended
EmitMethod ==
    /\ pc = "methods" /\ mi <= Len(Methods(Nodes[ni]))
    /\ LET class_node == Nodes[ni]
           item == Methods(class_node)[mi]
           method_code == MethodCode(item, class_node, Lines)
       IN  /\ ~IsEmptySpan(method_code)
           /\ class_chunks' =
                 Append(class_chunks,
                        ExtractChunkMetadata(item, method_code, class_node.name,
                                             GetDocstring(class_node), FilePath(fi),
                                             class_hierarchy, current_imports,
                                             current_from_imports))
           /\ AnalyzeNode(item)
    /\ mi' = mi + 1
    /\ UNCHANGED <<repo, collection, pc, fi, ni, out, chunks, warnings>>

\* the loop over the methods is over: chunk_python_code extends its chunks
EndMethods ==
    /\ pc = "methods" /\ mi > Len(Methods(Nodes[ni]))
    /\ chunks' = chunks \o class_chunks
    /\ ni' = ni + 1
    /\ pc' = "walk"
    /\ UNCHANGED <<repo, collection, fi, mi, out, class_chunks, warnings, analyzer>>

(***************************************************************************)
(* embed.py: ChromaDBEmbeddingService.  A document is the sequence of its  *)
(* lines; the collection is the dict of the documents by id.  The          *)
(* metadatas that go with the documents are left out.                      *)
(***************************************************************************)
\* batch_size of index_chunks
BatchSize == 100

\* the length over which _generate_chunk_id hashes the id
MaxIdLength == 100

\* hashlib.md5(base_id.encode()).hexdigest()[:8], unevaluated: no two strings of the
\* model have the same digest
Md5Prefix(base_id) == "md5(" \o base_id \o ")"

\* _generate_chunk_id(chunk)
GenerateChunkId(chunk) ==
    LET base_id == chunk.filepath \o ":" \o ToString(chunk.start_line) \o ":" \o chunk.name
    IN  IF Len(base_id) > MaxIdLength THEN chunk.name \o ":" \o Md5Prefix(base_id)
        ELSE base_id

\* chunk.get(field) is true: neither None nor empty
Given(value) == value # None /\ value # ""

\* document_content of prepare_documents_for_indexing: '\n'.join(context_parts)
DocumentContent(chunk) ==
    (IF Given(chunk.class_docstring)
     THEN <<"# Class docstring: " \o chunk.class_docstring>> ELSE <<>>)
    \o (IF Given(chunk.class_name) THEN <<"# Class: " \o chunk.class_name>> ELSE <<>>)
    \o (IF Given(chunk.docstring) THEN <<"'''" \o chunk.docstring \o "'''">> ELSE <<>>)
    \o chunk.code

\* prepare_documents_for_indexing(chunks): the documents and their ids
PrepareDocuments(chunks_) ==
    LET valid == SelectSeq(chunks_, LAMBDA chunk : ~IsBlankText(chunk.code))
    IN  [i \in 1..Len(valid) |->
            [document |-> DocumentContent(valid[i]), id |-> GenerateChunkId(valid[i])]]

\* what the library does with an id the collection already has: it raises, or it
\* leaves the stored document and goes on
ExistingIdPolicies == {"raise", "ignore"}

\* collection.add(documents, metadatas, ids) raises: an id twice in the call, or an
\* id the collection has, under the policy that raises
AddRaises(col, batch, policy) ==
    \/ \E i, j \in 1..Len(batch) : i < j /\ batch[i].id = batch[j].id
    \/ policy = "raise" /\ \E i \in 1..Len(batch) : batch[i].id \in DOMAIN col

\* collection.add(documents, metadatas, ids): whether it raised, and the collection
\* afterwards; the document of an id the collection has is never replaced
CollectionAdd(col, batch, policy) ==
    IF AddRaises(col, batch, policy) THEN [raised |-> TRUE, collection |-> col]
    ELSE [raised |-> FALSE,
          collection |->
              [id \in DOMAIN col \cup {batch[i].id : i \in 1..Len(batch)} |->
                  IF id \in DOMAIN col THEN col[id]
                  ELSE batch[CHOOSE i \in 1..Len(batch) : batch[i].id = id].document]]

RECURSIVE AddEach(_, _, _)
\* the except clause of index_chunks: each document of the batch is added alone, and
\* skipped when that raises
AddEach(col, batch, policy) ==
    IF batch = <<>> THEN col
    ELSE AddEach(CollectionAdd(col, <<Head(batch)>>, policy).collection, Tail(batch), policy)

RECURSIVE IndexBatches(_, _, _, _)
\* the loop of index_chunks from the batch that starts at i
IndexBatches(col, documents, i, policy) ==
    IF i >= Len(documents) THEN col
    ELSE LET batch_end == Min(i + BatchSize, Len(documents))
             batch == SubSeq(documents, i + 1, batch_end)
             added == CollectionAdd(col, batch, policy)
         IN  IndexBatches(IF added.raised THEN AddEach(col, batch, policy)
                          ELSE added.collection,
                          documents, i + BatchSize, policy)

\* what an earlier run left in the persisted collection: nothing, or a document of
\* a function `first` on line 1 of the first file, whose text was another
EarlierDocument == <<"def first():", "    return 0">>
PersistedCollections ==
    {EmptyDict, [id \in {FilePath(1) \o ":1:first"} |-> EarlierDocument]}

\* parse_code has returned chunks: the indexing service opens its collection and
\* index_chunks(chunks) runs to its end
IndexChunks ==
    /\ pc = "returned" /\ out # <<>>
    /\ \E persisted \in PersistedCollections, policy \in ExistingIdPolicies :
            collection' = IndexBatches(persisted, PrepareDocuments(out), 0, policy)
    /\ pc' = "indexed"
    /\ UNCHANGED <<repo, fi, ni, mi, out, chunks, class_chunks, warnings, analyzer>>

Next ==
    \/ ReadFails
    \/ DecodeFails
    \/ ParseFails
    \/ BeginFile
    \/ Return
    \/ SkipNode
    \/ EmitFunction
    \/ EmitClass
    \/ EndFile
    \/ DropMethod
    \/ EmitMethod
    \/ EndMethods
    \/ IndexChunks

Spec == Init /\ [][Next]_vars

\* PythonCodeParserService(repo_path) for a repository of SampleRepos
InitSamples ==
    /\ repo \in SampleRepos
    /\ pc = "loop"
    /\ fi = 1
    /\ ni = 1
    /\ mi = 1
    /\ out = <<>>
    /\ chunks = <<>>
    /\ class_chunks = <<>>
    /\ warnings = <<>>
    /\ class_hierarchy = EmptyDict
    /\ current_imports = EmptyDict
    /\ current_from_imports = EmptyDict
    /\ current_function_calls = {}
    /\ current_attributes = {}
    /\ current_exceptions = {}
    /\ collection = EmptyDict

SpecSamples == InitSamples /\ [][Next]_vars

(***************************************************************************)
(* chunk_python_code as a function of one file: what a call returns on a   *)
(* service whose class_hierarchy is `hierarchy`, and the class_hierarchy   *)
(* it leaves.                                                              *)
(***************************************************************************)
RECURSIVE MethodChunks(_, _, _, _, _, _)
\* extract_methods_from_class: the chunks of the items still to visit
MethodChunks(items, class_node, lines, filepath, hierarchy, tables) ==
    IF items = <<>> THEN <<>>
    ELSE LET item == Head(items)
             method_code == MethodCode(item, class_node, lines)
             rest == MethodChunks(Tail(items), class_node, lines, filepath, hierarchy, tables)
         IN  IF IsEmptySpan(method_code) THEN rest
             ELSE <<ExtractChunkMetadata(item, method_code, class_node.name,
                                         GetDocstring(class_node), filepath, hierarchy,
                                         tables.imports, tables.from_imports)>> \o rest

RECURSIVE NodeChunks(_, _, _, _, _)
\* the loop of chunk_python_code: the chunks of the declarations still to visit
NodeChunks(nodes, lines, filepath, hierarchy, tables) ==
    IF nodes = <<>> THEN [chunks |-> <<>>, hierarchy |-> hierarchy]
    ELSE LET node == Head(nodes)
         IN  IF IsMigrationClass(node) \/ IsExcludedName(node)
             THEN NodeChunks(Tail(nodes), lines, filepath, hierarchy, tables)
             ELSE LET chunk == ExtractChunkMetadata(node, ChunkCode(node, lines), None, None,
                                                    filepath, hierarchy, tables.imports,
                                                    tables.from_imports)
                      after == HierarchyAfter(node, hierarchy)
                      class_chunks_ ==
                          IF node.k = "ClassDef"
                          THEN MethodChunks(Methods(node), node, lines, filepath, after, tables)
                          ELSE <<>>
                      rest == NodeChunks(Tail(nodes), lines, filepath, after, tables)
                  IN  [chunks |-> <<chunk>> \o class_chunks_ \o rest.chunks,
                       hierarchy |-> rest.hierarchy]

\* chunk_python_code(code, filepath=filepath) for the code of file f
ChunkPythonCode(f, filepath, hierarchy) ==
    NodeChunks(DeclarationsOf[f], LinesOf[f], filepath, hierarchy, ExtractImports(TreeOf[f]))

(***************************************************************************)
(* What the claims speak of.                                               *)
(***************************************************************************)
\* the chunks of the file being chunked, in the order they are emitted
FileChunks ==
    IF pc = "walk" THEN chunks
    ELSE IF pc = "methods" THEN chunks \o class_chunks
    ELSE <<>>

\* every chunk emitted so far
AllChunks == out \o FileChunks

\* a chunk built by extract_methods_from_class
IsMethodChunk(c) == c.is_function /\ c.class_name # None

\* the class chunk a chunk of extract_methods_from_class was built under: the last
\* class chunk before it
OwnerOf(seq, i) ==
    seq[CHOOSE j \in 1..(i - 1) :
            /\ seq[j].type = "ClassDef"
            /\ \A l \in (j + 1)..(i - 1) : seq[l].type # "ClassDef"]

\* the lines start_line..end_line of the file, dedented, as a chunk's code holds them
OwnLines(lines, start_line, end_line) ==
    StripText(Dedent(Join(Slice(lines, start_line - 1, end_line))))

Chunking == pc \in {"walk", "methods"}

\* the class declarations of the file being chunked, at any depth
ClassNodes == {Nodes[i] : i \in {j \in 1..Len(Nodes) : Nodes[j].k = "ClassDef"}}

\* the function declarations of the file being chunked, at any depth
FunctionNodes == {Nodes[i] : i \in {j \in 1..Len(Nodes) : Nodes[j].k \in FunctionKinds}}

\* the items of a body that are functions
FunctionsIn(body) == {body[i] : i \in {j \in 1..Len(body) : body[j].k \in FunctionKinds}}

(***************************************************************************)
(* The claims.                                                             *)
(***************************************************************************)

\* C1: no chunk that chunk_python_code returns, from the walk or from
\* extract_methods_from_class, is named __init__, __str__, __repr__ or __call__.
C1_NoExcludedName ==
    \A i \in 1..Len(AllChunks) : AllChunks[i].name \notin ExcludedNames

\* C2: the code of every Method chunk is the file's lines start_line..end_line of
\* the method with the common indentation removed, wherever the class starts.
C2_MethodCodeIsOwnLines ==
    Chunking =>
        \A i \in 1..Len(FileChunks) :
            IsMethodChunk(FileChunks[i]) =>
                FileChunks[i].code
                    = OwnLines(Lines, FileChunks[i].start_line, FileChunks[i].end_line)

\* C3: the span extracted for a method is blank only if the method's own lines are
\* blank, so the empty-span guard of extract_methods_from_class drops no method
\* whose declaration is not blank.
C3_BlankSpanOnlyOfBlankLines ==
    (pc = "methods" /\ mi <= Len(Methods(Nodes[ni]))) =>
        LET item == Methods(Nodes[ni])[mi]
        IN  IsEmptySpan(MethodCode(item, Nodes[ni], Lines))
                => IsBlankText(Slice(Lines, item.lineno - 1, item.end_lineno))

\* C4: no declaration of a file yields more than one chunk, and a function declared
\* in the body of a function yields none.
C4_OneChunkPerDeclaration ==
    Chunking =>
        /\ \A i, j \in 1..Len(FileChunks) :
              (FileChunks[i].start_line = FileChunks[j].start_line
                  /\ FileChunks[i].name = FileChunks[j].name) => i = j
        /\ \A f \in FunctionNodes : \A inner \in FunctionsIn(f.body) :
              \A i \in 1..Len(FileChunks) : FileChunks[i].start_line # inner.lineno

\* C5: every chunk of a function declared directly in a class body has class_name
\* the name of that class and class_docstring its leading string literal.
C5_MethodChunkNamesItsClass ==
    Chunking =>
        \A cls \in ClassNodes : \A item \in FunctionsIn(cls.body) :
            \A i \in 1..Len(FileChunks) :
                (FileChunks[i].is_function /\ FileChunks[i].start_line = item.lineno) =>
                    /\ FileChunks[i].class_name = cls.name
                    /\ FileChunks[i].class_docstring = GetDocstring(cls)

\* C6: no chunk is a class named Migration, whether the class is declared at the
\* top level of a file or in the body of another declaration.
C6_NoMigrationClassChunk ==
    \A i \in 1..Len(AllChunks) :
        ~(AllChunks[i].type = "ClassDef" /\ AllChunks[i].name = "Migration")

\* the walk has just passed a class named Migration that is declared in a class body
C6_Witness ==
    /\ pc = "walk" /\ ni > 1
    /\ IsMigrationClass(Nodes[ni - 1]) /\ Nodes[ni - 1].col_offset > 0
    /\ chunks # <<>>

\* the chunks a new service returns for file f as the i-th file of the repository
ChunksOfNewService ==
    [f \in OkFiles, i \in 1..MaxFiles |-> ChunkPythonCode(f, FilePath(i), EmptyDict).chunks]

\* the chunks of the files of repo from position i on that parse, each chunked on its
\* own by a new service
RECURSIVE ChunksOfValidFiles(_)
ChunksOfValidFiles(i) ==
    IF i > Len(repo) THEN <<>>
    ELSE (IF repo[i].kind = "ok"
          THEN ChunksOfNewService[repo[i], i]
          ELSE <<>>) \o ChunksOfValidFiles(i + 1)

\* the paths of the files of repo from position i on that do not decode or parse
RECURSIVE PathsOfFailingFiles(_)
PathsOfFailingFiles(i) ==
    IF i > Len(repo) THEN <<>>
    ELSE (IF repo[i].kind # "ok" THEN <<FilePath(i)>> ELSE <<>>) \o PathsOfFailingFiles(i + 1)

\* C7: over files that are valid, not UTF-8 or not valid Python, parse_code returns
\* the chunks of the valid files in the order of the files, and prints one warning
\* for each of the others.
C7_ReturnsChunksOfValidFiles ==
    pc = "returned" =>
        /\ out = ChunksOfValidFiles(1)
        /\ warnings = PathsOfFailingFiles(1)

\* parse_code has returned chunks of a file that follows a file it warned about
C7_Witness ==
    /\ pc = "returned"
    /\ \E i, j \in 1..Len(repo) :
          /\ i < j
          /\ repo[i].kind \in {"undecodable", "syntax"}
          /\ repo[j].kind = "ok"
          /\ \E l \in 1..Len(out) : out[l].filepath = FilePath(j)

\* C8: parse_code propagates no exception to its caller when a file under the root
\* cannot be opened or read.
C8_NoExceptionPropagates == pc # "raised"

\* C9 as stated: for a method of a class with recorded base classes,
\* overrides_method is true iff calls_functions holds the string "super()".
C9_OverrideIffSuperToken ==
    \A i \in 1..Len(AllChunks) :
        (IsMethodChunk(AllChunks[i]) /\ OwnerOf(AllChunks, i).base_classes # <<>>) =>
            (AllChunks[i].overrides_method <=> "super()" \in AllChunks[i].calls_functions)

\* C9 as amended: for a method of a class with recorded base classes,
\* overrides_method is true iff some string of calls_functions contains "super()".
C9_OverrideIffSuperSubstring ==
    \A i \in 1..Len(AllChunks) :
        (IsMethodChunk(AllChunks[i]) /\ OwnerOf(AllChunks, i).base_classes # <<>>) =>
            (AllChunks[i].overrides_method
                <=> \E call \in AllChunks[i].calls_functions : Contains(call, "super()"))

\* a class with a base has a method chunk that overrides and one that does not
C9_Witness ==
    \E i, j \in 1..Len(AllChunks) :
        /\ IsMethodChunk(AllChunks[i]) /\ IsMethodChunk(AllChunks[j])
        /\ OwnerOf(AllChunks, i).base_classes # <<>>
        /\ OwnerOf(AllChunks, i) = OwnerOf(AllChunks, j)
        /\ AllChunks[i].overrides_method
        /\ ~AllChunks[j].overrides_method /\ AllChunks[j].calls_functions # {}

\* C10: overrides_method is false for every function chunk without an owning class
\* and for every method of a class with no recorded base classes, whatever it
\* calls; a class with no bases is not abstract.
C10_NoOverrideWithoutBases ==
    \A i \in 1..Len(AllChunks) :
        LET c == AllChunks[i]
        IN  /\ (c.is_function /\ c.class_name = None) => ~c.overrides_method
            /\ (IsMethodChunk(c) /\ OwnerOf(AllChunks, i).base_classes = <<>>)
                  => ~c.overrides_method
            /\ (c.type = "ClassDef" /\ c.base_classes = <<>>) => ~c.is_abstract

\* class Base has no bases; the chunks of its methods area and scale are emitted, and
\* scale calls super().scale()
C10_Witness ==
    \E i, j \in 1..Len(AllChunks) :
        /\ IsMethodChunk(AllChunks[i]) /\ IsMethodChunk(AllChunks[j])
        /\ AllChunks[i].name = "area" /\ AllChunks[j].name = "scale"
        /\ OwnerOf(AllChunks, i) = OwnerOf(AllChunks, j)
        /\ OwnerOf(AllChunks, i).name = "Base"
        /\ OwnerOf(AllChunks, i).base_classes = <<>>
        /\ "super().scale" \in AllChunks[j].calls_functions


\* the class chunks emitted so far
ClassChunks == {AllChunks[i] : i \in {j \in 1..Len(AllChunks) : AllChunks[j].type = "ClassDef"}}

\* C11: a class chunk's is_abstract is true if and only if one of its base_classes
\* contains "abc" or "abstract", whatever the case of the letters.
C11_AbstractIffAbcAnyCase ==
    \A c \in ClassChunks :
        c.is_abstract <=>
            \E i \in 1..Len(c.base_classes) :
                \/ Contains(Lower(c.base_classes[i]), "abc")
                \/ Contains(Lower(c.base_classes[i]), "abstract")

\* C11, amended: a class chunk's is_abstract is true if and only if one of its
\* base_classes contains "ABC" in capitals, or contains "abstract" whatever the case
\* of the letters.
C11_AbstractIffCapitalABC ==
    \A c \in ClassChunks :
        c.is_abstract <=>
            \E i \in 1..Len(c.base_classes) :
                \/ Contains(c.base_classes[i], "ABC")
                \/ Contains(Lower(c.base_classes[i]), "abstract")

\* a class whose only extracted base is collections.abc.Mapping has been emitted, and
\* is not abstract
C11_Witness ==
    \E c \in ClassChunks :
        /\ c.base_classes = <<"collections.abc.Mapping">>
        /\ ~c.is_abstract

\* the function chunks of the file being chunked
FileFunctionChunks ==
    {FileChunks[i] : i \in {j \in 1..Len(FileChunks) : FileChunks[j].is_function}}

\* the declaration a chunk of the file being chunked was built from
NodeOf(c) ==
    CHOOSE n \in FunctionNodes \cup ClassNodes :
        n.k = c.type /\ n.name = c.name /\ n.lineno = c.start_line

\* how many of the nodes of ast.walk(node) are of one of the kinds
CountOf(node, kinds) ==
    Cardinality({i \in 1..Len(Walk(node)) : Walk(node)[i].k \in kinds})

\* C12: a function chunk's complexity_score is 1, plus the number of if, while, for,
\* async for and except handler nodes among the function's descendants, plus the
\* number of their and / or combinations (one per combination, however many operands).
C12_ComplexityCountsConstructs ==
    Chunking =>
        \A c \in FileFunctionChunks :
            c.complexity_score =
                1 + CountOf(NodeOf(c), {"If", "While", "For", "AsyncFor", "ExceptHandler"})
                  + CountOf(NodeOf(c), {"BoolOp"})

\* the function whose body is one if, one for and one except has been emitted with
\* score 4 (a lone pass scores 1, and a loop that contains two ifs 1 + 3)
C12_Witness ==
    /\ Chunking
    /\ repo[1] = SampleFile([family |-> "function", body |-> <<7>>])
    /\ \E c \in FileFunctionChunks : c.name = "work" /\ c.complexity_score = 4
    /\ CalculateComplexity(TreeOf[SampleFile([family |-> "function", body |-> <<1>>])].body[1]) = 1
    /\ CalculateComplexity(TreeOf[SampleFile([family |-> "function", body |-> <<6>>])].body[1]) = 4

\* C13: the parameters of a function chunk are the function's N positional
\* parameters in the order of the declaration, kind positional, then *vararg, kind
\* var_positional, then **kwarg, kind var_keyword; with D defaults, the first N - D
\* positional parameters have default None and the others the rendering of the
\* defaults in their order; *vararg and **kwarg have default None.
C13_ParametersInOrderDefaultsAtTail ==
    Chunking =>
        \A c \in FileFunctionChunks :
            LET args == NodeOf(c).args
                N == Len(args.args)
                D == Len(args.defaults)
                P == c.parameters
                V == IF args.vararg # NoneNode THEN 1 ELSE 0
                K == IF args.kwarg # NoneNode THEN 1 ELSE 0
            IN  /\ Len(P) = N + V + K
                /\ \A i \in 1..N :
                        /\ P[i].name = args.args[i].arg
                        /\ P[i].kind = "positional"
                        /\ i <= N - D => P[i].default = None
                        /\ i > N - D =>
                                P[i].default = GetDefaultValue(args.defaults[i - (N - D)])
                /\ V = 1 => P[N + 1] = [name |-> "*" \o args.vararg.arg, kind |-> "var_positional",
                                        default |-> None, type |-> TypeOf(args.vararg)]
                /\ K = 1 => /\ P[N + V + 1].name = "**" \o args.kwarg.arg
                            /\ P[N + V + 1].kind = "var_keyword"
                            /\ P[N + V + 1].default = None

\* def work(a, b=1, *args, **kwargs) has been emitted with four parameters, of
\* defaults None, '1', None, None
C13_Witness ==
    \E c \in FileFunctionChunks :
        /\ Len(c.parameters) = 4
        /\ [i \in 1..4 |-> c.parameters[i].name] = <<"a", "b", "*args", "**kwargs">>
        /\ [i \in 1..4 |-> c.parameters[i].default] = <<None, "1", None, None>>
        /\ [i \in 1..4 |-> c.parameters[i].kind]
              = <<"positional", "positional", "var_positional", "var_keyword">>

\* C14: the imports_used of a function chunk are exactly the full names of the
\* entries of the merged import table, in which a from-import replaces the plain
\* import of the same alias, whose alias is a prefix of one of the chunk's
\* calls_functions or accesses_attributes.
C14_ImportsUsedByPrefix ==
    Chunking =>
        \A c \in FileFunctionChunks :
            LET aliases == DOMAIN current_imports \cup DOMAIN current_from_imports
                FullName(alias) == IF alias \in DOMAIN current_from_imports
                                   THEN current_from_imports[alias]
                                   ELSE current_imports[alias]
                Used(alias) == \E name \in c.calls_functions \cup c.accesses_attributes :
                                   /\ Len(alias) <= Len(name)
                                   /\ SubSeq(name, 1, Len(alias)) = alias
            IN  c.imports_used = {FullName(alias) : alias \in {a \in aliases : Used(a)}}

\* a function that calls get() has been emitted in a file that has both import get
\* and from helpers import fetch as get: its imports_used are helpers.fetch alone
C14_Witness ==
    /\ Chunking
    /\ "get" \in DOMAIN current_imports \cap DOMAIN current_from_imports
    /\ \E c \in FileFunctionChunks :
            c.calls_functions = {"get"} /\ c.imports_used = {"helpers.fetch"}

\* the pairs of a local name and a full name that the import statements of one kind
\* of the file being chunked bind
ImportedBy(kind) ==
    LET nodes == Walk(TreeOf[repo[fi]])
        stmts == {nodes[i] : i \in {j \in 1..Len(nodes) : nodes[j].k = kind}}
        Local(alias) == IF alias.asname # None THEN alias.asname ELSE alias.name
        Full(stmt, alias) == IF kind = "Import" \/ stmt.module = "" THEN alias.name
                             ELSE stmt.module \o "." \o alias.name
    IN  UNION {{<<Local(stmt.names[j]), Full(stmt, stmt.names[j])>> : j \in 1..Len(stmt.names)} :
                  stmt \in stmts}

\* the table's keys are the local names of the pairs, each with a full name of its own
TableHolds(table, pairs) ==
    /\ DOMAIN table = {pair[1] : pair \in pairs}
    /\ \A alias \in DOMAIN table : <<alias, table[alias]>> \in pairs

\* C15: while a file is chunked, current_imports and current_from_imports hold the
\* imports of that file and nothing else: asname or name -> name for an import,
\* asname or name -> module.name, or name for an empty module, for a from-import.
C15_TablesHoldTheFilesImports ==
    Chunking =>
        /\ TableHolds(current_imports, ImportedBy("Import"))
        /\ TableHolds(current_from_imports, ImportedBy("ImportFrom"))

\* the second file, whose only import is from . import local, is being chunked after
\* a file that has imports of its own
C15_Witness ==
    /\ Chunking /\ fi = 2
    /\ ExtractImports(TreeOf[repo[1]]).imports # EmptyDict
    /\ current_imports = EmptyDict
    /\ DOMAIN current_from_imports = {"local"}
    /\ current_from_imports["local"] = "local"

\* chunk_python_code has parsed the file and extracted its imports, and has not yet
\* visited a declaration
FileStarts == pc = "walk" /\ ni = 1

\* the walk of the file is over: chunks is what chunk_python_code returns
FileEnds == pc = "walk" /\ ni > Len(Nodes)

\* C16: when chunk_python_code starts on a file, class_hierarchy has no entry: none
\* that was recorded for an earlier file.
C16_HierarchyEmptyWhenFileStarts == FileStarts => class_hierarchy = EmptyDict

\* a chunk without the fields that name its file
Pathless(c) == [c EXCEPT !.filepath = "", !.filename = ""]

Placeholder(name) == Contains(name, "<expr>.") \/ Contains(name, "<call>.")

\* C18: what a function chunk holds of calls, attributes, exceptions, used imports
\* and override is what the visit of the function's own body collects from empty
\* sets: calls_functions, accesses_attributes and raises_exceptions are those sets,
\* every name of them that is not a placeholder is written in the function's own
\* lines, imports_used is the imports those sets use, and overrides_method is true
\* only if one of those calls holds super().
C18_SetsComeFromOwnBody ==
    Chunking =>
        \A c \in FileFunctionChunks :
            LET own == Slice(Lines, c.start_line - 1, c.end_line)
                Written(name) == \E i \in 1..Len(own) : Contains(own[i], name)
                sets == FunctionSets(NodeOf(c))
            IN  /\ c.calls_functions = sets.calls
                /\ c.accesses_attributes = sets.attrs
                /\ c.raises_exceptions = sets.excs
                /\ \A name \in c.calls_functions \cup c.accesses_attributes
                                    \cup c.raises_exceptions :
                        ~Placeholder(name) => Written(name)
                /\ c.imports_used
                      = GetUsedImports(current_imports, current_from_imports,
                                       sets.calls, sets.attrs)
                /\ c.overrides_method
                      => \E call \in sets.calls : Contains(call, "super()")

\* a function that calls something has been emitted after a function of the same
\* file that calls something else, and holds none of the other's calls
C18_Witness ==
    /\ Chunking
    /\ \E i, j \in 1..Len(FileChunks) :
            /\ i < j
            /\ FileChunks[i].is_function /\ FileChunks[j].is_function
            /\ FileChunks[i].calls_functions # {}
            /\ FileChunks[j].calls_functions # {}
            /\ FileChunks[i].calls_functions \cap FileChunks[j].calls_functions = {}
            /\ FileChunks[i].overrides_method /\ ~FileChunks[j].overrides_method

\* C19: every chunk emitted has 1 <= start_line <= end_line, and a code that is not
\* empty once trimmed.
C19_SpanAndCodeNotEmpty ==
    \A i \in 1..Len(AllChunks) :
        /\ 1 <= AllChunks[i].start_line
        /\ AllChunks[i].start_line <= AllChunks[i].end_line
        /\ ~IsBlankText(AllChunks[i].code)

\* extract_methods_from_class has dropped a method whose span was empty, and
\* parse_code has returned the chunks of the file: a class, and functions
C19_Witness ==
    /\ pc = "returned"
    /\ repo = <<File("ok", 0, 7)>>
    /\ {out[i].name : i \in 1..Len(out)} = {"first", "Circle", "area"}
    /\ \A i \in 1..Len(out) : ~IsMethodChunk(out[i])

\* the documents index_chunks was called with
Submitted == PrepareDocuments(out)

\* C20: once index_chunks has run, the collection holds, for the id of every chunk
\* it was given, the document of the last chunk given with that id, whether the id
\* was in the collection before or came twice in the call.
C20_IndexHoldsLastSubmitted ==
    pc = "indexed" =>
        \A i \in 1..Len(Submitted) :
            /\ Submitted[i].id \in DOMAIN collection
            /\ (\A j \in (i + 1)..Len(Submitted) : Submitted[j].id # Submitted[i].id)
                    => collection[Submitted[i].id] = Submitted[i].document

\* C21: no entry of a function chunk's calls_functions is a placeholder such as
\* <expr>.attr or <call>.attr: a call whose callee is an attribute of a subscript or
\* of another computed expression adds nothing to calls_functions.
C21_NoPlaceholderInCalls ==
    Chunking =>
        \A c \in FileFunctionChunks : \A call \in c.calls_functions : ~Placeholder(call)

\* the raise statements of a function
RaisesOf(node) == {Walk(node)[i] : i \in {j \in 1..Len(Walk(node)) : Walk(node)[j].k = "Raise"}}

\* the bare name of the exception type of a raised call or name
BareName(exc) ==
    CASE exc.k = "Name" -> exc.id
      [] exc.k = "Call" /\ exc.func.k = "Name" -> exc.func.id
      [] exc.k = "Call" /\ exc.func.k = "Attribute" -> exc.func.attr
      [] OTHER -> None

\* C24: raises_exceptions of a function chunk holds the bare name of the exception
\* type of every raise statement of the function whose raised expression is a call
\* or a bare name, a call of a dotted path such as errors.MyError() included, and
\* nothing else: a bare re-raise adds nothing.
C24_RaisedTypesAreRecorded ==
    Chunking =>
        \A c \in FileFunctionChunks :
            LET named == {r \in RaisesOf(NodeOf(c)) : r.exc.k \in {"Call", "Name"}}
            IN  c.raises_exceptions = {BareName(r.exc) : r \in named}

\* the classes named Migration of the file being chunked
MigrationClasses == {node \in ClassNodes : IsMigrationClass(node)}

\* C22: no chunk is built from a declaration written in the body of a class named
\* Migration: the lines of no chunk lie within the body of such a class.
C22_NoChunkFromMigrationBody ==
    Chunking =>
        \A i \in 1..Len(FileChunks) : \A node \in MigrationClasses :
            ~(node.lineno < FileChunks[i].start_line
                /\ FileChunks[i].end_line <= node.end_lineno)

\* the class extract_methods_from_class is called with
ClassOfMethods == Nodes[ni]

\* C23: while the Method chunks of a class are built, the class_hierarchy entry of
\* the class's name is the base list of that class declaration, whatever class of
\* the same name was recorded before it; each Method chunk's overrides_method is
\* computed from that base list; and class_hierarchy is not written from the
\* class's own entry to the last of its Method chunks.
C23_EntryIsTheEnclosingClass ==
    /\ [](pc = "methods" =>
            /\ ClassOfMethods.name \in DOMAIN class_hierarchy
            /\ class_hierarchy[ClassOfMethods.name] = BaseClasses(ClassOfMethods)
            /\ \A i \in 1..Len(class_chunks) :
                    class_chunks[i].overrides_method
                        <=> /\ BaseClasses(ClassOfMethods) # <<>>
                            /\ \E call \in class_chunks[i].calls_functions :
                                    Contains(call, "super()"))
    /\ [][pc = "methods" => class_hierarchy' = class_hierarchy]_vars

\* a Method chunk of a class has been built after a class of the same name and of
\* other bases was recorded in the same file; the method calls super()
C23_Witness ==
    /\ pc = "methods"
    /\ class_chunks # <<>>
    /\ \E call \in class_chunks[1].calls_functions : Contains(call, "super()")
    /\ \E i \in 1..Len(chunks) :
            /\ chunks[i].type = "ClassDef"
            /\ chunks[i].name = ClassOfMethods.name
            /\ chunks[i].base_classes # BaseClasses(ClassOfMethods)
=============================================================================
